---- MODULE Spec2Model ----
(***************************************************************************)
(* Model of src/lambda/cost_checker.py: the AWS cost monitor Lambda.       *)
(*                                                                         *)
(* Money is counted in mills (1/1000 of a currency unit) so that the       *)
(* two-decimal rounding of the code is visible: 0.01 is 10, 5.0 is 5000.   *)
(* Rounded and formatted amounts are counted in cents.  Calendar dates     *)
(* are day numbers; a larger number is a later day.                        *)
(***************************************************************************)
EXTENDS Integers, Sequences, FiniteSets, TLC

\* ---------------------------------------------------------------- bounds
MaxDay == 2          \* days 1..MaxDay exist
MaxBuckets == 2      \* longest ResultsByTime list of a billing response
MaxGroups == 15      \* longest Groups list of a time bucket
MaxInvocations == 2  \* invocations followed when the store is followed

\* ------------------------------------------------------ program constants
COST_THRESHOLD == 5000   \* 5.0
MinCost == 10            \* 0.01, the filter of the service breakdown
TopDisplay == 5          \* services[:5]
TopStore == 10           \* services[:10]

Days == 1..MaxDay

\* ------------------------------------------------------------- helpers
\* round(x, 2) and f"{x:.2f}": mills to cents, to nearest.  Both round the
\* exact binary value of the float; the amounts of this model are never an
\* exact half cent, so ties (resolved to even here) do not occur.
RoundCents(m) ==
    LET q == m \div 10
        r == m % 10
    IN  IF r < 5 THEN q
        ELSE IF r > 5 THEN q + 1
        ELSE IF q % 2 = 0 THEN q ELSE q + 1

\* seq[:n]
Take(seq, n) == SubSeq(seq, 1, IF Len(seq) < n THEN Len(seq) ELSE n)

\* Place e after every element whose cost is at least e's cost: the place a
\* stable descending sort gives an element that came later in the input.
RECURSIVE InsertDesc(_, _)
InsertDesc(sorted, e) ==
    IF sorted = <<>> THEN <<e>>
    ELSE IF Head(sorted).cost >= e.cost
         THEN <<Head(sorted)>> \o InsertDesc(Tail(sorted), e)
         ELSE <<e>> \o sorted

RECURSIVE SortDescFrom(_, _)
SortDescFrom(sorted, rest) ==
    IF rest = <<>> THEN sorted
    ELSE SortDescFrom(InsertDesc(sorted, Head(rest)), Tail(rest))

\* list.sort(key=lambda x: x['cost'], reverse=True): stable, descending
SortByCostDesc(seq) == SortDescFrom(<<>>, seq)

\* ------------------------------------------------------------- inputs
\* The invocation payload: an object that may carry use_test_data.
Events ==
    { [hasFlag |-> FALSE, use_test_data |-> FALSE],
      [hasFlag |-> TRUE,  use_test_data |-> FALSE],
      [hasFlag |-> TRUE,  use_test_data |-> TRUE] }

\* Amounts of the groups of a bucket, repeated cyclically: ties (20, 20),
\* entries at or under the filter (4, 10) and one just over it (12).
CostPattern == <<20, 4, 3000, 20, 12, 10, 700>>

\* Group i of a bucket; every seventh-but-one group carries no UnblendedCost.
GroupAt(i) ==
    [ service    |-> i,
      hasMetrics |-> (i % 7 # 6),
      cost       |-> CostPattern[((i - 1) % Len(CostPattern)) + 1] ]

GroupsOf(n) == [i \in 1..n |-> GroupAt(i)]

GroupCounts == {0, 4, MaxGroups}

\* results['Total']['UnblendedCost']: absent, not a number, or an amount.
Totals ==
    { [present |-> FALSE, numeric |-> TRUE,  amount |-> 0],
      [present |-> TRUE,  numeric |-> FALSE, amount |-> 0],
      [present |-> TRUE,  numeric |-> TRUE,  amount |-> COST_THRESHOLD],
      [present |-> TRUE,  numeric |-> TRUE,  amount |-> 12340] }

\* One element of ResultsByTime.
Bucket(d, t, hg, n) ==
    [start |-> d, total |-> t, hasGroups |-> hg, groups |-> GroupsOf(n)]

\* The bucket the handler reads, in all its shapes.
LastBuckets ==
    { Bucket(d, t, TRUE, n) : d \in Days, t \in Totals, n \in GroupCounts }
    \cup { Bucket(d, t, FALSE, 0) : d \in Days, t \in Totals }

\* Buckets before the last one: any day, one fixed content.
EarlierBuckets ==
    { Bucket(d, [present |-> TRUE, numeric |-> TRUE, amount |-> 700], TRUE, 1)
        : d \in Days }

BucketLists ==
    {<<>>} \cup
    { pre \o <<last>> :
        pre \in UNION { [1..k -> EarlierBuckets] : k \in 0..(MaxBuckets - 1) },
        last \in LastBuckets }

\* What ce.get_cost_and_usage can return.
Responses ==
    { [hasResults |-> FALSE, buckets |-> <<>>] }
    \cup { [hasResults |-> TRUE, buckets |-> bs] : bs \in BucketLists }

NoResponse == [hasResults |-> FALSE, buckets |-> <<>>]

\* The responses of the runs that follow the store over several invocations:
\* none, or one bucket of any day with a total on either side of the threshold.
StoreResponses ==
    { NoResponse }
    \cup { [hasResults |-> TRUE, buckets |-> <<Bucket(d, t, TRUE, 4)>>] :
              d \in Days,
              t \in { x \in Totals : x.present /\ x.numeric } }

\* The synthetic catalog, in the order of fake_services, with the bounds of
\* each random.uniform(lo, hi) in mills.
\*   1 Amazon Elastic Compute Cloud - Compute   2 Amazon Simple Storage Service
\*   3 AWS Lambda   4 Amazon Relational Database Service   5 Amazon CloudFront
\*   6 Amazon DynamoDB   7 Amazon SNS
Catalog ==
    << [lo |-> 1000, hi |-> 3000], [lo |-> 300, hi |-> 1200],
       [lo |-> 50,   hi |-> 400],  [lo |-> 500, hi |-> 2000],
       [lo |-> 100,  hi |-> 600],  [lo |-> 50,  hi |-> 300],
       [lo |-> 10,   hi |-> 100] >>

\* Outcomes of the seven successive random() calls, in percent of the range.
RandomStreams ==
    << <<0, 0, 0, 0, 0, 0, 0>>,
       <<100, 100, 100, 100, 100, 100, 100>>,
       <<50, 100, 0, 50, 20, 100, 40>> >>

Seeds == 1..Len(RandomStreams)

\* random.uniform(a, b) == a + (b - a) * random()
Uniform(a, b, u) == a + ((b - a) * u) \div 100

RECURSIVE SumCost(_)
SumCost(seq) == IF seq = <<>> THEN 0 ELSE Head(seq).cost + SumCost(Tail(seq))

\* ----------------------------------------------------------- the texts
Subject(words, args) == [words |-> words, args |-> args]
Line(text, args) == [text |-> text, args |-> args]

NoDataSubject ==
    Subject(<<"AWS", "Cost", "Monitor", "-", "No", "Data", "Yet">>, <<>>)
NoDataBody ==
    << Line("No cost data available yet. This is normal for new accounts.", <<>>),
       Line("Costs typically appear 24-48 hours after resource usage.", <<>>) >>
NoDataMessage == "No cost data available yet"

ErrorSubject == Subject(<<"AWS", "Cost", "Monitor", "Error">>, <<>>)
ErrorBody(e) == << Line("Error occurred:", <<>>), Line(e, <<>>) >>

AlertRealSubject(total) ==
    Subject(<<"AWS", "Cost", "Alert", ":", "$">>, <<RoundCents(total)>>)
NormalRealSubject(total) ==
    Subject(<<"AWS", "Daily", "Cost", "Report", ":", "$">>, <<RoundCents(total)>>)
AlertTestSubject(total) ==
    Subject(<<"TEST", "ALERT", "-", "Cost", ":", "$">>, <<RoundCents(total)>>)
NormalTestSubject(total) ==
    Subject(<<"TEST", "-", "AWS", "Cost", ":", "$">>, <<RoundCents(total)>>)

AlertBanner == Line("ALERT: Daily cost exceeded $", <<COST_THRESHOLD>>)

\* "{i}. {svc['service']}: ${svc['cost']:.2f}" for each listed service
ServiceLines(svcs) ==
    [i \in 1..Len(svcs) |->
        Line("{i}. {service}: ${cost:.2f}",
             <<i, svcs[i].service, RoundCents(svcs[i].cost)>>)]

\* The report body of real_cost_handler before the alert banner is added.
RealMessage(date, total, top) ==
    << Line("AWS Cost Report - {report_date}", <<date>>),
       Line("========================================", <<>>),
       Line("Total Cost: ${total_cost:.2f}", <<RoundCents(total)>>) >>
    \o (IF top # <<>>
        THEN <<Line("Top Services:", <<>>)>> \o ServiceLines(top)
        ELSE <<Line("No individual service costs recorded.", <<>>)>>)
    \o << Line("Cost data stored in DynamoDB", <<>>),
          Line("Note: Costs may take 24-48 hours to appear in Cost Explorer.", <<>>) >>

\* The report body of test_mode_handler.
TestMessage(date, total, svcs) ==
    << Line("TEST MODE - AWS Cost Report - {today}", <<date>>),
       Line("========================================", <<>>),
       Line("THIS IS SIMULATED DATA FOR TESTING", <<>>),
       Line("Total Cost: ${total_cost:.2f}", <<RoundCents(total)>>),
       Line("Top Services:", <<>>) >>
    \o ServiceLines(Take(svcs, TopDisplay))
    \o << Line("========================================", <<>>),
          Line("Test data stored in DynamoDB", <<>>),
          Line("This is test data generated for development.", <<>>),
          Line("Real cost data will appear here once available.", <<>>) >>

\* -------------------------------------------------------------- state
VARIABLES
    scope,         \* "one": a single invocation, every input;
                   \* "many": successive invocations, the inputs that reach the store
    pc,            \* position of the current invocation
    invocations,   \* invocations started so far
    clock,         \* the day datetime.now() reads
    event,         \* the payload of the current invocation
    SNS_TOPIC_ARN, \* TRUE when the environment sets it
    response,      \* the billing response of the current invocation
    exc,           \* the exception raised in the current invocation, if any
    report_date, total_cost, services, top_5,
    writes,        \* calls of save_to_dynamodb of this invocation, in order
    pubs,          \* calls of sns.publish of this invocation, in order
    result,        \* what lambda_handler gave its caller
    table,         \* the items of the table AWSCostHistory
    puts           \* history: the items put successfully, oldest first

vars == << scope, pc, invocations, clock, event, SNS_TOPIC_ARN, response, exc,
           report_date, total_cost, services, top_5, writes, pubs, result,
           table, puts >>

NoResult == [kind |-> "none", statusCode |-> 0, body |-> [none |-> TRUE]]
NoEvent == [hasFlag |-> FALSE, use_test_data |-> FALSE]

Returned(code, body) == [kind |-> "returned", statusCode |-> code, body |-> body]
Raised(e) == [kind |-> "raised", statusCode |-> 0, body |-> [error |-> e]]

\* Order stamp of the next external call of this invocation.
NextAt == Len(writes) + Len(pubs) + 1

\* A put that adds the item and leaves the one with the same key in place.
PutItem_Append(tbl, item) == tbl \cup {item}

\* table.put_item(Item=item): the item replaces the one with the same key.
PutItem(tbl, item) == { i \in tbl : i.date # item.date } \cup {item}

\* The item save_to_dynamodb builds.
Item(date, total, svcs, is_test) ==
    [ date         |-> date,
      total_cost   |-> RoundCents(total),
      top_services |-> [i \in 1..Len(Take(svcs, TopStore)) |->
                          [service |-> svcs[i].service,
                           cost    |-> RoundCents(svcs[i].cost)]],
      timestamp    |-> clock,
      is_test_data |-> is_test ]

\* A save without its except clause: a failing store call reaches the caller.
SaveToDynamodb_Raises(date, total, svcs, is_test, ok, next) ==
    LET item == [ date         |-> date,
                  total_cost   |-> RoundCents(total),
                  top_services |-> [i \in 1..Len(Take(svcs, TopStore)) |->
                                      [service |-> svcs[i].service,
                                       cost    |-> RoundCents(svcs[i].cost)]],
                  timestamp    |-> clock,
                  is_test_data |-> is_test ]
    IN
    /\ writes' = Append(writes, [item |-> item, ok |-> ok, at |-> NextAt])
    /\ table' = IF ok THEN {i \in table : i.date # item.date} \cup {item}
                ELSE table
    /\ puts' = IF ok THEN Append(puts, item) ELSE puts
    /\ pc' = IF ok THEN next ELSE "except"

\* save_to_dynamodb: the item is put, or any exception is caught and False
\* returned; either way the caller goes on at next.  ok is the outcome of
\* the calls to the store.
SaveToDynamodb(date, total, svcs, is_test, ok, next) ==
    LET item == Item(date, total, svcs, is_test) IN
    /\ writes' = Append(writes, [item |-> item, ok |-> ok, at |-> NextAt])
    /\ table' = IF ok THEN PutItem(table, item) ELSE table
    /\ puts' = IF ok THEN Append(puts, item) ELSE puts
    /\ pc' = next

\* sns.publish(TopicArn=..., Subject=subject, Message=body), ok its outcome
Publish(subject, body, ok) ==
    pubs' = Append(pubs, [subject |-> subject, body |-> body, ok |-> ok,
                          at |-> NextAt])

Start ==
    /\ pc = "idle"
    /\ invocations = 0
    /\ clock = 1
    /\ event = NoEvent
    /\ SNS_TOPIC_ARN = FALSE
    /\ response = NoResponse
    /\ exc = ""
    /\ report_date = 0
    /\ total_cost = 0
    /\ services = <<>>
    /\ top_5 = <<>>
    /\ writes = <<>>
    /\ pubs = <<>>
    /\ result = NoResult
    /\ table = {}
    /\ puts = <<>>

Init == Start /\ scope = "one"
InitStore == Start /\ scope = "many"

\* lambda_handler: a new invocation starts, some time after the previous one
\* ended, and dispatches on use_test_data.
LambdaHandler ==
    /\ pc \in {"idle", "done"}
    /\ invocations < (IF scope = "one" THEN 1 ELSE MaxInvocations)
    /\ invocations' = invocations + 1
    /\ \E ev \in Events, now \in Days :
        /\ now >= clock
        /\ clock' = now
        /\ event' = ev
        \* event.get('use_test_data', False)
        /\ pc' = IF ev.hasFlag /\ ev.use_test_data
                 THEN "test_init" ELSE "live_init"
    /\ exc' = ""
    /\ result' = NoResult
    /\ SNS_TOPIC_ARN' = FALSE
    /\ response' = NoResponse
    /\ report_date' = 0
    /\ total_cost' = 0
    /\ services' = <<>>
    /\ top_5' = <<>>
    /\ writes' = <<>>
    /\ pubs' = <<>>
    /\ UNCHANGED << scope, table, puts >>

\* real_cost_handler, up to the try: the environment is read and the two
\* clients are constructed, outside any exception handler.
LiveInit ==
    /\ pc = "live_init"
    /\ \E arn \in BOOLEAN, ok \in BOOLEAN :
        /\ SNS_TOPIC_ARN' = arn
        /\ IF ok
           THEN /\ pc' = "fetch"
                /\ UNCHANGED << exc, result >>
           ELSE /\ pc' = "done"
                /\ exc' = "ClientError"
                /\ result' = Raised("ClientError")
    /\ UNCHANGED << scope, invocations, clock, event, response, report_date,
                    total_cost, services, top_5, writes, pubs, table, puts >>

\* ce.get_cost_and_usage over the last seven days: a response, or an
\* exception the handler's except clause catches.
Fetch ==
    /\ pc = "fetch"
    /\ \/ \E r \in (IF scope = "one" THEN Responses ELSE StoreResponses) :
            /\ response' = r
            /\ pc' = "fetched"
            /\ exc' = exc
       \/ /\ response' = response
          /\ pc' = "except"
          /\ exc' = "FetchError"
    /\ UNCHANGED << scope, invocations, clock, event, SNS_TOPIC_ARN, report_date,
                    total_cost, services, top_5, writes, pubs, result,
                    table, puts >>

NoResults(r) == ~r.hasResults \/ Len(r.buckets) = 0

\* The branch for a response without results: a notice is published, with
\* no handler of its own around the call, and 200 returned.
NoData ==
    /\ pc = "fetched"
    /\ NoResults(response)
    /\ IF SNS_TOPIC_ARN
       THEN \E ok \in BOOLEAN :
              /\ Publish(NoDataSubject, NoDataBody, ok)
              /\ IF ok
                 THEN /\ pc' = "done"
                      /\ result' = Returned(200, [message |-> NoDataMessage])
                      /\ exc' = exc
                 ELSE /\ pc' = "except"
                      /\ result' = result
                      /\ exc' = "PublishError"
       ELSE /\ pc' = "done"
            /\ result' = Returned(200, [message |-> NoDataMessage])
            /\ UNCHANGED << pubs, exc >>
    /\ UNCHANGED << scope, invocations, clock, event, SNS_TOPIC_ARN, response,
                    report_date, total_cost, services, top_5, writes,
                    table, puts >>

\* response['ResultsByTime'][-1]
Results(r) == r.buckets[Len(r.buckets)]

\* The service breakdown: the groups with a cost above 0.01, as listed.
Breakdown(results) ==
    IF results.hasGroups
    THEN LET kept == SelectSeq(results.groups,
                               LAMBDA g : g.hasMetrics /\ g.cost > MinCost)
         IN  [i \in 1..Len(kept) |->
                [service |-> kept[i].service, cost |-> kept[i].cost]]
    ELSE <<>>

\* The day, the total and the sorted breakdown are read from the results; a
\* total that is not a number raises.
Process ==
    /\ pc = "fetched"
    /\ ~NoResults(response)
    /\ LET results == Results(response) IN
        /\ report_date' = results.start
        /\ IF results.total.present /\ ~results.total.numeric
           THEN /\ pc' = "except"
                /\ exc' = "ValueError"
                /\ UNCHANGED << total_cost, services, top_5 >>
           ELSE /\ pc' = "save"
                /\ exc' = exc
                /\ total_cost' = IF results.total.present
                                 THEN results.total.amount ELSE 0
                /\ services' = SortByCostDesc(Breakdown(results))
                /\ top_5' = Take(SortByCostDesc(Breakdown(results)), TopDisplay)
    /\ UNCHANGED << scope, invocations, clock, event, SNS_TOPIC_ARN, response,
                    writes, pubs, result, table, puts >>

\* save_to_dynamodb(report_date, total_cost, services, is_test=False); the
\* value it returns is not looked at.
Save ==
    /\ pc = "save"
    /\ \E ok \in BOOLEAN :
         SaveToDynamodb(report_date, total_cost, services, FALSE, ok, "report")
    /\ UNCHANGED << scope, invocations, clock, event, SNS_TOPIC_ARN, response, exc,
                    report_date, total_cost, services, top_5, pubs, result >>

\* A report that publishes whether or not the topic is configured.
Report_Unguarded ==
    /\ pc = "report"
    /\ LET alert_triggered == total_cost > COST_THRESHOLD
           base == RealMessage(report_date, total_cost, top_5)
           message == IF alert_triggered THEN <<AlertBanner>> \o base ELSE base
           subject == IF alert_triggered THEN AlertRealSubject(total_cost)
                      ELSE NormalRealSubject(total_cost)
       IN
        /\ \E ok \in BOOLEAN : Publish(subject, message, ok)
        /\ result' = Returned(200,
                        [ date         |-> report_date,
                          total_cost   |-> total_cost,
                          top_services |-> top_5,
                          alert_sent   |-> alert_triggered,
                          saved_to_db  |-> TRUE ])
    /\ pc' = "done"
    /\ UNCHANGED << scope, invocations, clock, event, SNS_TOPIC_ARN, response,
                    exc, report_date, total_cost, services, top_5, writes,
                    table, puts >>

\* The report is written, published inside a handler of its own, returned.
Report ==
    /\ pc = "report"
    /\ LET alert_triggered == total_cost > COST_THRESHOLD
           base == RealMessage(report_date, total_cost, top_5)
           message == IF alert_triggered THEN <<AlertBanner>> \o base ELSE base
           subject == IF alert_triggered THEN AlertRealSubject(total_cost)
                      ELSE NormalRealSubject(total_cost)
       IN
        /\ IF SNS_TOPIC_ARN
           THEN \E ok \in BOOLEAN : Publish(subject, message, ok)
           ELSE pubs' = pubs
        /\ result' = Returned(200,
                        [ date         |-> report_date,
                          total_cost   |-> total_cost,
                          top_services |-> top_5,
                          alert_sent   |-> alert_triggered,
                          saved_to_db  |-> TRUE ])
    /\ pc' = "done"
    /\ UNCHANGED << scope, invocations, clock, event, SNS_TOPIC_ARN, response, exc,
                    report_date, total_cost, services, top_5, writes,
                    table, puts >>

\* except Exception: an error notice is published, failures ignored, and
\* 500 returned.
Except ==
    /\ pc = "except"
    /\ IF SNS_TOPIC_ARN
       THEN \E ok \in BOOLEAN : Publish(ErrorSubject, ErrorBody(exc), ok)
       ELSE pubs' = pubs
    /\ result' = Returned(500, [error |-> exc])
    /\ pc' = "done"
    /\ UNCHANGED << scope, invocations, clock, event, SNS_TOPIC_ARN, response, exc,
                    report_date, total_cost, services, top_5, writes,
                    table, puts >>

\* test_mode_handler, up to the data: the environment is read and the client
\* constructed, outside any exception handler.
TestInit ==
    /\ pc = "test_init"
    /\ \E arn \in BOOLEAN, ok \in BOOLEAN :
        /\ SNS_TOPIC_ARN' = arn
        /\ IF ok
           THEN /\ pc' = "generate"
                /\ UNCHANGED << exc, result >>
           ELSE /\ pc' = "done"
                /\ exc' = "ClientError"
                /\ result' = Raised("ClientError")
    /\ UNCHANGED << scope, invocations, clock, event, response, report_date,
                    total_cost, services, top_5, writes, pubs, table, puts >>

\* fake_services as drawn, in catalog order.
FakeServices(seed) ==
    [i \in 1..Len(Catalog) |->
        [service |-> i,
         cost    |-> Uniform(Catalog[i].lo, Catalog[i].hi,
                             RandomStreams[seed][i])]]

\* The seven costs are drawn, summed and sorted; the day is today.
Generate ==
    /\ pc = "generate"
    /\ \E seed \in Seeds :
        /\ total_cost' = SumCost(FakeServices(seed))
        /\ services' = SortByCostDesc(FakeServices(seed))
        /\ top_5' = Take(SortByCostDesc(FakeServices(seed)), TopDisplay)
    /\ report_date' = clock
    /\ pc' = "test_save"
    /\ UNCHANGED << scope, invocations, clock, event, SNS_TOPIC_ARN, response, exc,
                    writes, pubs, result, table, puts >>

\* save_to_dynamodb(today, total_cost, fake_services, is_test=True); the
\* value it returns is not looked at.
TestSave ==
    /\ pc = "test_save"
    /\ \E ok \in BOOLEAN :
         SaveToDynamodb(report_date, total_cost, services, TRUE, ok,
                        "test_report")
    /\ UNCHANGED << scope, invocations, clock, event, SNS_TOPIC_ARN, response, exc,
                    report_date, total_cost, services, top_5, pubs, result >>

\* The test report is written, published inside a handler, returned.
TestReport ==
    /\ pc = "test_report"
    /\ LET message == TestMessage(report_date, total_cost, services)
           subject == IF total_cost > COST_THRESHOLD
                      THEN AlertTestSubject(total_cost)
                      ELSE NormalTestSubject(total_cost)
       IN
        /\ IF SNS_TOPIC_ARN
           THEN \E ok \in BOOLEAN : Publish(subject, message, ok)
           ELSE pubs' = pubs
        /\ result' = Returned(200,
                        [ test_mode    |-> TRUE,
                          date         |-> report_date,
                          total_cost   |-> total_cost,
                          top_services |-> Take(services, TopDisplay),
                          saved_to_db  |-> TRUE,
                          message      |-> "Test data generated and stored" ])
    /\ pc' = "done"
    /\ UNCHANGED << scope, invocations, clock, event, SNS_TOPIC_ARN, response, exc,
                    report_date, total_cost, services, top_5, writes,
                    table, puts >>

Next ==
    \/ LambdaHandler
    \/ LiveInit
    \/ Fetch
    \/ NoData
    \/ Process
    \/ Save
    \/ Report
    \/ Except
    \/ TestInit
    \/ Generate
    \/ TestSave
    \/ TestReport

Spec == Init /\ [][Next]_vars
SpecStore == InitStore /\ [][Next]_vars

\* ------------------------------------------------- the shape of the state
TypeOK ==
    /\ scope \in {"one", "many"}
    /\ pc \in {"idle", "live_init", "fetch", "fetched", "save", "report",
               "except", "test_init", "generate", "test_save", "test_report",
               "done"}
    /\ invocations \in 0..MaxInvocations
    /\ clock \in Days
    /\ event \in Events
    /\ SNS_TOPIC_ARN \in BOOLEAN
    /\ response \in Responses
    /\ result.kind \in {"none", "returned", "raised"}
    /\ Len(writes) <= 2
    /\ Len(pubs) <= 2

\* ------------------------------------------------ vocabulary of the claims
Done == pc = "done"
TestMode == event.hasFlag /\ event.use_test_data
LiveMode == ~TestMode
Returned200 == result.kind = "returned" /\ result.statusCode = 200

\* The billing query of a finished live invocation answered.
Fetched == Done /\ LiveMode /\ exc \notin {"ClientError", "FetchError"}
EmptyPath == Fetched /\ NoResults(response)
PopulatedPath == Fetched /\ ~NoResults(response)

\* The fetch and aggregation path itself failed.
PrimaryFailed == exc \in {"FetchError", "ValueError"}

SomePublishFailed == \E i \in 1..Len(pubs) : ~pubs[i].ok
AllPublishesOk == \A i \in 1..Len(pubs) : pubs[i].ok
SaveFailed == writes # <<>> /\ ~writes[1].ok

\* C1: on every path, a failing publish on a configured channel neither
\* aborts the run nor changes the status code: it stays 500 only where the
\* fetch or aggregation failed, and is 200 on the empty, populated and
\* test-mode paths.
C1_PublishFailureSwallowed ==
    (Done /\ SNS_TOPIC_ARN /\ SomePublishFailed)
        => /\ result.kind = "returned"
           /\ result.statusCode = IF PrimaryFailed THEN 500 ELSE 200

\* C2: whatever external step fails, lambda_handler returns a result with
\* statusCode 200 or 500 and raises nothing to its caller.
C2_NeverRaises ==
    Done => /\ result.kind = "returned"
            /\ result.statusCode \in {200, 500}

\* C3: when the store write fails, in live mode with a populated response
\* and in test mode, the publish is still attempted after the write attempt
\* (when the channel is configured) and the status code is 200.
C3_SaveFailureNonFatal ==
    (Done /\ SaveFailed)
        => /\ Returned200
           /\ SNS_TOPIC_ARN =>
                \E i \in 1..Len(pubs) : pubs[i].at > writes[1].at

C3_Witness ==
    /\ Done /\ LiveMode /\ SaveFailed /\ SNS_TOPIC_ARN
    /\ Len(pubs) = 1 /\ pubs[1].ok
    /\ Returned200

HasWord(subject, w) == \E i \in 1..Len(subject.words) : subject.words[i] = w

\* A subject of a cost report, live or synthetic.
IsReportSubject(s) ==
    \/ HasWord(s, "Alert") \/ HasWord(s, "ALERT")
    \/ HasWord(s, "Report") \/ HasWord(s, "TEST")

\* C4: a live response without time buckets leads to no store write, to the
\* 'no data yet' notification (not a report's subject or body) and to
\* statusCode 200 with the fixed 'no data yet' message.
C4_EmptyResponse ==
    EmptyPath
        => /\ writes = <<>>
           /\ SNS_TOPIC_ARN =>
                /\ pubs # <<>>
                /\ pubs[1].subject = NoDataSubject
                /\ pubs[1].body = NoDataBody
                /\ ~IsReportSubject(pubs[1].subject)
           /\ Returned200
           /\ DOMAIN result.body = {"message"}
           /\ result.body.message = NoDataMessage

\* Non-increasing by cost, equal costs in input order (a service is named
\* by its place in the input), every cost above floor, at most n entries.
WellListed(list, floor, n) ==
    /\ Len(list) <= n
    /\ \A i \in 1..Len(list) : list[i].cost > floor
    /\ \A i, j \in 1..Len(list) :
         i < j => /\ list[i].cost >= list[j].cost
                  /\ list[i].cost = list[j].cost
                        => list[i].service < list[j].service

\* C5: the reported list (top_services of the result) and the persisted
\* list are sorted non-increasing with ties in input order, hold no entry
\* with cost at most 0.01, and have at most 5 and at most 10 entries.
C5_ServiceLists ==
    /\ (Done /\ Returned200 /\ "top_services" \in DOMAIN result.body)
         => WellListed(result.body.top_services, MinCost, TopDisplay)
    /\ \A w \in 1..Len(writes) :
         WellListed(writes[w].item.top_services, RoundCents(MinCost), TopStore)

HasBanner(body) == \E i \in 1..Len(body) : body[i] = AlertBanner

\* C6: the subject of every report carries the label its total and its
\* mode call for; above the threshold the subject contains "Alert" and the
\* body leads with the alert banner; at or below it the body has no banner.
C6_SubjectLabels ==
    \A i \in 1..Len(pubs) :
      (Done /\ Returned200 /\ "top_services" \in DOMAIN result.body) =>
        LET s == pubs[i].subject
            b == pubs[i].body
            alert == total_cost > COST_THRESHOLD
        IN  /\ s = AlertRealSubject(total_cost) <=> (alert /\ LiveMode)
            /\ s = NormalRealSubject(total_cost) <=> (~alert /\ LiveMode)
            /\ s = AlertTestSubject(total_cost) <=> (alert /\ TestMode)
            /\ s = NormalTestSubject(total_cost) <=> (~alert /\ TestMode)
            /\ alert => (HasWord(s, "Alert") /\ b[1] = AlertBanner)
            /\ ~alert => ~HasBanner(b)

\* The item put last for day d, as a set: empty when none was.
LatestPut(d) ==
    LET idx == { i \in 1..Len(puts) : puts[i].date = d }
    IN  IF idx = {} THEN {}
        ELSE { puts[CHOOSE i \in idx : \A j \in idx : j <= i] }

\* C7: an invocation writes the store at most once, under one date key; the
\* store holds at most one record per date, the one of the latest
\* successful write for that date.
C7_StoreWrites ==
    /\ Len(writes) <= 1
    /\ \A i, j \in table : i.date = j.date => i = j
    /\ \A d \in Days : { i \in table : i.date = d } = LatestPut(d)

C7_Witness ==
    /\ Done
    /\ Len(puts) = 2
    /\ puts[1].date = puts[2].date
    /\ puts[1] # puts[2]
    /\ table = {puts[2]}

RECURSIVE MaxStart(_)
MaxStart(buckets) ==
    IF Len(buckets) = 1 THEN buckets[1].start
    ELSE LET m == MaxStart(Tail(buckets))
         IN  IF buckets[1].start > m THEN buckets[1].start ELSE m

\* C8: for a non-empty response, the day of the persisted key, of the
\* notification and of the result is the most recent day among all the
\* buckets of the response, whatever their order.
C8_MostRecentDay ==
    (PopulatedPath /\ Returned200)
        => /\ result.body.date = MaxStart(response.buckets)
           /\ \A w \in 1..Len(writes) :
                writes[w].item.date = MaxStart(response.buckets)
           /\ \A i \in 1..Len(pubs) :
                \A k \in 1..Len(pubs[i].body) :
                    pubs[i].body[k].text = "AWS Cost Report - {report_date}"
                        => pubs[i].body[k].args = <<MaxStart(response.buckets)>>

\* What a finished invocation gives its caller when the channel plays no
\* part: decided by the mode, the query and the response alone.
ExpectedOutcome ==
    IF exc = "ClientError" THEN 0
    ELSE IF TestMode THEN 200
    ELSE IF exc = "FetchError" THEN 500
    ELSE IF NoResults(response) THEN 200
    ELSE IF Results(response).total.present
            /\ ~Results(response).total.numeric THEN 500
    ELSE 200

\* The store is written by the runs that get as far as a report.
ExpectedWrite ==
    /\ exc # "ClientError"
    /\ \/ TestMode
       \/ /\ exc # "FetchError"
          /\ ~NoResults(response)
          /\ ~(Results(response).total.present
               /\ ~Results(response).total.numeric)

\* C9: with the channel unconfigured nothing is published on any path, and
\* the status code and the store write are those of a run with a configured
\* channel whose publish succeeds.
C9_UnconfiguredChannel ==
    /\ ~SNS_TOPIC_ARN => pubs = <<>>
    /\ (Done /\ (~SNS_TOPIC_ARN \/ AllPublishesOk))
         => /\ result.statusCode = ExpectedOutcome
            /\ (writes # <<>>) <=> ExpectedWrite
            /\ writes # <<>> =>
                 writes[1].item =
                    Item(report_date, total_cost, services, TestMode)

C9_Witness ==
    /\ Done /\ ~SNS_TOPIC_ARN /\ PopulatedPath
    /\ Returned200 /\ writes # <<>> /\ writes[1].ok

\* C10: a 200 result that says saved_to_db says so only when the store
\* write of the invocation succeeded.
C10_SavedToDbTruthful ==
    (Done /\ Returned200 /\ "saved_to_db" \in DOMAIN result.body
          /\ result.body.saved_to_db)
        => (writes # <<>> /\ writes[1].ok)

====
